---------------------------- MODULE Spec2Model ----------------------------
(***************************************************************************)
(* Model of the geospatial discovery-and-routing engine of src/script.js   *)
(* (the DOMContentLoaded handler of lines 6-203; lines 630-866 repeat the  *)
(* same code).  One browser page: a single event loop on which location    *)
(* callbacks, click handlers and the continuations of the asynchronous     *)
(* scanNearby / routeTo calls run to completion one at a time.  Every      *)
(* action below is one such run, from one suspension point (await) to the  *)
(* next.                                                                   *)
(***************************************************************************)
EXTENDS Integers, Sequences, FiniteSets, TLC

\* ------------------------------------------------------------------ bounds
MaxRequests == 3   \* remote requests (discovery and routing) issued in one behaviour
MaxCoord == 2      \* largest latitude and longitude of the grid, in whole degrees
MaxElems == 3      \* longest elements list given to one scan evaluated in isolation
MaxFairScans == 1  \* discovery requests issued in one behaviour of SpecFair
MaxBatches == 2    \* full batches in the largest count given to generateReports

\* ------------------------------------------------------- values and inputs
\* `let routeLayer = null`: 0 stands for null, layers are numbered from 1.
NoLayer == 0

\* `let meMarker = null`
NoMarker == [present |-> FALSE, lat |-> 0, lng |-> 0]

\* Coordinates the location provider reports (grid units).
Positions == { [lat |-> 0, lng |-> 0], [lat |-> 2, lng |-> 1] }

Categories == {"hospital", "police", "fire", "shelter"}

\* The `tags` object of an element; a key that is absent reads as undefined.
Undefined == "undefined"
NoTags == [k \in {} |-> Undefined]
Tag(tags, k) == IF k \in DOMAIN tags THEN tags[k] ELSE Undefined

\* Elements of the discovery endpoint's JSON answers.
Hosp == [id |-> 1, lat |-> 0, lon |-> 2, hasTags |-> TRUE,
         tags |-> [amenity |-> "hospital"]]
Pol == [id |-> 2, lat |-> 1, lon |-> 0, hasTags |-> TRUE,
        tags |-> [amenity |-> "police"]]
Rest == [id |-> 3, lat |-> 0, lon |-> 1, hasTags |-> TRUE,
         tags |-> [amenity |-> "restaurant"]]
Bare == [id |-> 4, lat |-> 1, lon |-> 1, hasTags |-> FALSE, tags |-> NoTags]
Shel == [id |-> 5, lat |-> 2, lon |-> 2, hasTags |-> TRUE,
         tags |-> [emergency |-> "shelter"]]

Fire == [id |-> 6, lat |-> 0, lon |-> 1, hasTags |-> TRUE,
         tags |-> [amenity |-> "fire_station"]]

\* `data.elements` of the answers the endpoint may give (<<>>: none/absent).
Bodies == { <<>>, <<Pol, Rest, Hosp>> }

\* Sets of ticked category checkboxes read by scanNearby.
Ticked == { {"hospital"}, {"hospital", "police", "fire", "shelter"} }

\* Ways a request may fail: non-success status, network failure.
FetchFailures == {"http", "network"}

\* --------------------------------------------------------------- state
VARIABLES
    loaded,        \* the DOMContentLoaded handler has run (startWatch called)
    geoSupported,  \* navigator.geolocation exists
    watching,      \* a watchPosition subscription is registered
    meMarker,      \* the 'You are here' marker: NoMarker or its position
    routeLayer,    \* the routeLayer variable: NoLayer or a layer
    mapLayers,     \* route layers currently added to the map
    placeMarkers,  \* markers in the placeMarkers layer group, in order
    resultsEl,     \* children of the results list, in order
    status,        \* text of the status element (without 'Status: ')
    scans,         \* scanNearby calls suspended at an await
    nScans,        \* discovery requests issued so far
    routes,        \* routeTo calls suspended at an await
    nRoutes,       \* routing requests issued so far
    faults,        \* scanNearby calls that ended in an unhandled rejection
    clearSeen,     \* history: suspended routeTo calls that saw a clear click
    lastOp,        \* history: how the handler that ran last ended, when it was
                   \* a step of scanNearby or routeTo ("other" otherwise)
    probe          \* one call of a function run in isolation: its arguments,
                   \* its progress and its result (NoProbe in the program)

vars == << loaded, geoSupported, watching, meMarker, routeLayer, mapLayers,
           placeMarkers, resultsEl, status, scans, nScans, routes, nRoutes,
           faults, clearSeen, lastOp, probe >>

\* No pure function is evaluated in isolation while the program runs.
NoProbe == [fn |-> "none"]


Init ==
    /\ loaded = FALSE
    /\ geoSupported \in BOOLEAN
    /\ watching = FALSE
    /\ meMarker = NoMarker
    /\ routeLayer = NoLayer
    /\ mapLayers = {}
    /\ placeMarkers = << >>
    /\ resultsEl = << >>
    /\ status = ""
    /\ scans = {}
    /\ nScans = 0
    /\ routes = {}
    /\ nRoutes = 0
    /\ faults = {}
    /\ clearSeen = {}
    /\ lastOp = "other"
    /\ probe = NoProbe


\* ------------------------------------------------------- pure functions
\* haversine(lat1, lon1, lat2, lon2): the great-circle distance in metres.
\* Coordinates are whole degrees of a small grid and the arithmetic is
\* fixed-point: a value v at scale S stands for the number v / S.  Every
\* operation is correctly rounded in magnitude, whatever the sign, as the
\* floating-point operations of the code are.
Scale4 == 100 * 100
Scale5 == 10 * Scale4

Abs(x) == IF x < 0 THEN 0 - x ELSE x

\* x * y / scale, rounded toward zero.
Times(x, y, scale) ==
    LET m == (Abs(x) * Abs(y)) \div scale
    IN  IF (x < 0) # (y < 0) THEN 0 - m ELSE m

\* Math.sin(toRad(d) / 2) for a difference of d degrees, at scale 10^5
\* (the k-th entry is sin(k/2 degrees)); the sine is odd.
SinHalfDeg == << 873, 1745, 2618, 3490, 4362 >>
sinHalf(d) ==
    IF d = 0 THEN 0 ELSE IF d < 0 THEN 0 - SinHalfDeg[0 - d] ELSE SinHalfDeg[d]

\* Math.cos(toRad(d)) for a latitude of d degrees, at scale 10^4; the
\* cosine is even.
CosDeg == << 9998, 9994, 9986, 9976, 9962 >>
cosDeg(d) == IF d = 0 THEN Scale4 ELSE CosDeg[Abs(d)]

\* Math.sqrt(n): the integer square root, by Newton's iteration from r.
RECURSIVE SqrtFrom(_, _)
SqrtFrom(n, r) ==
    LET next == (r + n \div r) \div 2
    IN  IF next >= r THEN r ELSE SqrtFrom(n, next)
sqrt(n) == IF n = 0 THEN 0 ELSE SqrtFrom(n, Scale4)

\* Math.atan2(y, x) for y >= 0 (scale 10^5) and x > 0 (scale 10^4), the
\* quadrant the formula uses: atan(t) = t - t^3/3 for the small t = y/x.
atan2(y, x) ==
    LET t == (y * Scale4) \div x
    IN  t - Times(Times(t, t, Scale5), t, Scale5) \div 3

\* const R = 6371000
R == 6371000

\* A variant of the formula that takes the cosine of the first latitude
\* twice instead of the cosines of both latitudes.
haversine_SameCos(lat1, lon1, lat2, lon2) ==
    LET dLat == lat2 - lat1
        dLon == lon2 - lon1
        a == Times(sinHalf(dLat), sinHalf(dLat), 1)
             + Times(Times(Times(cosDeg(lat1), cosDeg(lat1), Scale4),
                           sinHalf(dLon), Scale4),
                     sinHalf(dLon), 1)
        c == 2 * atan2(sqrt(a), sqrt(Scale4 * Scale4 - a \div 100))
    IN  ((R \div 1000) * c) \div 100

\* a is at scale 10^10, sqrt(a) and c at scale 10^5, sqrt(1 - a) at scale
\* 10^4, the result R * c in metres.
haversine(lat1, lon1, lat2, lon2) ==
    LET dLat == lat2 - lat1
        dLon == lon2 - lon1
        a == Times(sinHalf(dLat), sinHalf(dLat), 1)
             + Times(Times(Times(cosDeg(lat1), cosDeg(lat2), Scale4),
                           sinHalf(dLon), Scale4),
                     sinHalf(dLon), 1)
        c == 2 * atan2(sqrt(a), sqrt(Scale4 * Scale4 - a \div 100))
    IN  ((R \div 1000) * c) \div 100

\* The values of haversine on the grid of whole degrees 0..MaxCoord,
\* evaluated once.
HaversineOnGrid ==
    [q \in (0..MaxCoord) \X (0..MaxCoord) \X (0..MaxCoord) \X (0..MaxCoord) |->
        haversine(q[1], q[2], q[3], q[4])] @@ << >>

\* A variant of classify that tests for a shelter first.
classify_ShelterFirst(elem) ==
    LET tags == IF elem.hasTags THEN elem.tags ELSE NoTags
    IN  IF Tag(tags, "emergency") = "shelter"
           \/ Tag(tags, "amenity") = "shelter" THEN "shelter"
        ELSE IF Tag(tags, "amenity") = "hospital" THEN "hospital"
        ELSE IF Tag(tags, "amenity") = "police" THEN "police"
        ELSE IF Tag(tags, "amenity") = "fire_station" THEN "fire"
        ELSE "unknown"

\* classify(elem): category from the tags, in the code's order of tests.
classify(elem) ==
    LET tags == IF elem.hasTags THEN elem.tags ELSE NoTags
    IN  IF Tag(tags, "amenity") = "hospital" THEN "hospital"
        ELSE IF Tag(tags, "amenity") = "police" THEN "police"
        ELSE IF Tag(tags, "amenity") = "fire_station" THEN "fire"
        ELSE IF Tag(tags, "emergency") = "shelter"
                \/ Tag(tags, "amenity") = "shelter" THEN "shelter"
        ELSE "unknown"

\* parseInt(text): text is a sequence of characters.  Leading blanks are
\* skipped, a sign is read, then the longest run of digits; NaN without one.
DigitVal == [c \in {"0", "1", "2", "3", "4", "5", "6", "7", "8", "9"} |->
               CASE c = "0" -> 0 [] c = "1" -> 1 [] c = "2" -> 2 [] c = "3" -> 3
                 [] c = "4" -> 4 [] c = "5" -> 5 [] c = "6" -> 6 [] c = "7" -> 7
                 [] c = "8" -> 8 [] c = "9" -> 9]
IsDigit(c) == c \in DOMAIN DigitVal
NaN == [nan |-> TRUE, val |-> 0]

RECURSIVE SkipBlanks(_)
SkipBlanks(s) == IF s # << >> /\ s[1] = " " THEN SkipBlanks(Tail(s)) ELSE s

RECURSIVE ParseDigits(_, _)
ParseDigits(s, acc) ==
    IF s = << >> \/ ~IsDigit(s[1]) THEN acc
    ELSE ParseDigits(Tail(s), acc * 10 + DigitVal[s[1]])

parseInt(text) ==
    LET t == SkipBlanks(text)
        signed == t # << >> /\ t[1] \in {"+", "-"}
        u == IF signed THEN Tail(t) ELSE t
    IN  IF u = << >> \/ ~IsDigit(u[1]) THEN NaN
        ELSE [nan |-> FALSE,
              val |-> IF signed /\ t[1] = "-" THEN 0 - ParseDigits(u, 0)
                      ELSE ParseDigits(u, 0)]

\* `parseInt(radius.value) || 2000`: NaN and 0 are falsy.
RadiusOf(text) ==
    LET n == parseInt(text)
    IN  IF n.nan \/ n.val = 0 THEN 2000 ELSE n.val

\* Texts of the radius input.
RadiusTexts == { << >>, <<"-", "5">> }

\* A variant of the insertion that puts a place before the places at the
\* same distance (the sort is then not stable).
RECURSIVE InsertByDist_BeforeEqual(_, _)
InsertByDist_BeforeEqual(p, sorted) ==
    IF sorted = << >> THEN << p >>
    ELSE IF p.dist <= sorted[1].dist THEN << p >> \o sorted
    ELSE << sorted[1] >> \o InsertByDist_BeforeEqual(p, Tail(sorted))

\* places.sort((a,b) => a.dist - b.dist): Array.prototype.sort is stable
\* (ECMAScript 2019), and the comparator returns 0 for equal distances.
RECURSIVE InsertByDist(_, _)
InsertByDist(p, sorted) ==
    IF sorted = << >> THEN << p >>
    ELSE IF p.dist < sorted[1].dist THEN << p >> \o sorted
    ELSE << sorted[1] >> \o InsertByDist(p, Tail(sorted))

RECURSIVE SortByDist(_)
SortByDist(places) ==
    IF places = << >> THEN << >>
    ELSE InsertByDist(places[Len(places)],
                      SortByDist(SubSeq(places, 1, Len(places) - 1)))

\* A variant of the filter that lets places of no known category through.
RECURSIVE FilterPlaces_KeepUnknown(_, _)
FilterPlaces_KeepUnknown(elements, okTypes) ==
    IF elements = << >> THEN << >>
    ELSE LET e == elements[1]
             p == [id |-> e.id, lat |-> e.lat, lon |-> e.lon, type |-> classify(e)]
         IN  (IF p.type \in okTypes \cup {"unknown"} THEN << p >> ELSE << >>)
             \o FilterPlaces_KeepUnknown(Tail(elements), okTypes)

\* elements.map(...).map(p => ({...p, type: classify(p)})).filter(...)
RECURSIVE FilterPlaces(_, _)
FilterPlaces(elements, okTypes) ==
    IF elements = << >> THEN << >>
    ELSE LET e == elements[1]
             p == [id |-> e.id, lat |-> e.lat, lon |-> e.lon, type |-> classify(e)]
         IN  (IF p.type \in okTypes THEN << p >> ELSE << >>)
             \o FilterPlaces(Tail(elements), okTypes)

\* places.forEach(p => p.dist = haversine(myLat, myLon, p.lat, p.lon))
WithDist(places, myLat, myLon) ==
    [i \in 1..Len(places) |->
        [id |-> places[i].id, lat |-> places[i].lat, lon |-> places[i].lon,
         type |-> places[i].type,
         dist |-> HaversineOnGrid[<< myLat, myLon, places[i].lat, places[i].lon >>]]]

\* ------------------------------------------------------ location tracker
\* startWatch without the `return` after the 'not supported' status.
StartWatch_NoReturn ==
    /\ ~loaded
    /\ loaded' = TRUE
    /\ IF ~geoSupported
       THEN status' = "Geolocation not supported"
       ELSE UNCHANGED status
    /\ watching' = TRUE
    /\ lastOp' = "other"
    /\ UNCHANGED << probe, geoSupported, meMarker, routeLayer, mapLayers, placeMarkers,
                    resultsEl, scans, nScans, routes, nRoutes, faults,
                    clearSeen >>

\* startWatch(), called once at the end of the DOMContentLoaded handler.
StartWatch ==
    /\ ~loaded
    /\ loaded' = TRUE
    /\ IF ~geoSupported
       THEN /\ status' = "Geolocation not supported"
            /\ watching' = FALSE
       ELSE /\ watching' = TRUE
            /\ UNCHANGED status
    /\ lastOp' = "other"
    /\ UNCHANGED << probe, geoSupported, meMarker, routeLayer, mapLayers, placeMarkers,
                    resultsEl, scans, nScans, routes, nRoutes, faults,
                    clearSeen >>

\* The success callback of watchPosition.
PositionUpdate(pos) ==
    /\ loaded /\ watching
    /\ status' = "located"
    /\ meMarker' = [present |-> TRUE, lat |-> pos.lat, lng |-> pos.lng]
    /\ lastOp' = "other"
    /\ UNCHANGED << probe, loaded, geoSupported, watching, routeLayer, mapLayers,
                    placeMarkers, resultsEl, scans, nScans, routes, nRoutes, faults,
                    clearSeen >>

\* An error callback that also forgets the stored position.
PositionError_DropsPosition ==
    /\ loaded /\ watching
    /\ status' = "Geo error"
    /\ meMarker' = NoMarker
    /\ lastOp' = "other"
    /\ UNCHANGED << probe, loaded, geoSupported, watching, routeLayer,
                    mapLayers, placeMarkers, resultsEl, scans, nScans, routes, nRoutes, faults,
                    clearSeen >>

\* An error callback that also ends the watch.
PositionError_ClearWatch ==
    /\ loaded /\ watching
    /\ status' = "Geo error"
    /\ watching' = FALSE
    /\ lastOp' = "other"
    /\ UNCHANGED << probe, loaded, geoSupported, meMarker, routeLayer,
                    mapLayers, placeMarkers, resultsEl, scans, nScans, routes, nRoutes, faults,
                    clearSeen >>

\* The error callback of watchPosition.
PositionError ==
    /\ loaded /\ watching
    /\ status' = "Geo error"
    /\ lastOp' = "other"
    /\ UNCHANGED << probe, loaded, geoSupported, watching, meMarker, routeLayer,
                    mapLayers, placeMarkers, resultsEl, scans, nScans, routes, nRoutes, faults,
                    clearSeen >>

\* The click handler of the locate button.
LocateClick ==
    /\ loaded
    /\ status' = IF meMarker.present THEN status ELSE "No location available yet"
    /\ lastOp' = "other"
    /\ UNCHANGED << probe, loaded, geoSupported, watching, meMarker, routeLayer,
                    mapLayers, placeMarkers, resultsEl, scans, nScans, routes, nRoutes, faults,
                    clearSeen >>

\* ------------------------------------------------------ discovery cycle
\* Text of the error an unsuccessful fetch raises inside fetchNearby.
OverpassFailed(failure) ==
    CASE failure = "http" -> "Overpass failed: Overpass error"
      [] failure = "network" -> "Overpass failed: network"

\* fetchNearby without its try/catch: the error of a failed request leaves
\* the function as an exception.
fetchNearby_NoCatch(outcome, body, curStatus) ==
    IF outcome = "ok"
    THEN [elements |-> body, status |-> curStatus, thrown |-> FALSE]
    ELSE [elements |-> << >>, status |-> curStatus, thrown |-> TRUE]

\* What fetchNearby hands back to scanNearby once its request has resolved:
\* the elements it returns, the status text it leaves, whether it threw.
fetchNearby(outcome, body, curStatus) ==
    IF outcome = "ok"
    THEN [elements |-> body, status |-> curStatus, thrown |-> FALSE]
    ELSE [elements |-> << >>, status |-> OverpassFailed(outcome), thrown |-> FALSE]

\* clearPlaces(): both the marker group and the list are emptied.
clearPlaces == [markers |-> << >>, list |-> << >>]

\* The marker scanNearby adds for place p in discovery cycle c.
PlaceMarker(p, c) ==
    [cycle |-> c, id |-> p.id, lat |-> p.lat, lon |-> p.lon, type |-> p.type,
     dist |-> p.dist]

\* addPlaceToList(place, myLat, myLon): the list item, distance recomputed.
addPlaceToList(place, myLat, myLon, c) ==
    [cycle |-> c, id |-> place.id, lat |-> place.lat, lon |-> place.lon,
     type |-> place.type,
     dist |-> HaversineOnGrid[<< myLat, myLon, place.lat, place.lon >>]]

\* scanNearby without the `if(!meMarker)` test: the request goes out from
\* the marker's default coordinates.
scanNearby_NoGuard(text) ==
    /\ loaded
    /\ nScans + nRoutes < MaxRequests
    /\ placeMarkers' = clearPlaces.markers
    /\ resultsEl' = clearPlaces.list
    /\ status' = "Searching nearby..."
    /\ nScans' = nScans + 1
    /\ scans' = scans \cup
          {[id |-> nScans + 1,
            latlng |-> [lat |-> meMarker.lat, lng |-> meMarker.lng],
            radius |-> RadiusOf(text),
            before |-> resultsEl]}
    /\ lastOp' = "scanStart"
    /\ UNCHANGED << probe, loaded, geoSupported, watching, meMarker, routeLayer,
                    mapLayers, routes, nRoutes, faults, clearSeen >>

\* scanNearby() up to its await: the scan button's click handler.
\* `before` remembers the list the click found displayed.
scanNearby(text) ==
    /\ loaded
    /\ meMarker.present => nScans + nRoutes < MaxRequests
    /\ placeMarkers' = clearPlaces.markers
    /\ resultsEl' = clearPlaces.list
    /\ IF ~meMarker.present
       THEN /\ status' = "No location yet"
            /\ lastOp' = "scanNoLocation"
            /\ UNCHANGED << scans, nScans >>
       ELSE /\ status' = "Searching nearby..."
            /\ nScans' = nScans + 1
            /\ scans' = scans \cup
                  {[id |-> nScans + 1,
                    latlng |-> [lat |-> meMarker.lat, lng |-> meMarker.lng],
                    radius |-> RadiusOf(text),
                    before |-> resultsEl]}
            /\ lastOp' = "scanStart"
    /\ UNCHANGED << probe, loaded, geoSupported, watching, meMarker, routeLayer,
                    mapLayers, routes, nRoutes, faults, clearSeen >>

\* The calls of haversine that one scan makes once its elements are in, as
\* the ids of the places they are made for: one for each place kept by the
\* filter (places.forEach(p => p.dist = haversine(...))), then one for each
\* place in addPlaceToList, in display order.
haversineCalls(sc, elements, okTypes) ==
    LET places == FilterPlaces(elements, okTypes)
        sorted == SortByDist(WithDist(places, sc.latlng.lat, sc.latlng.lng))
    IN  [i \in 1..Len(places) |-> places[i].id]
        \o [i \in 1..Len(sorted) |-> sorted[i].id]

\* scanNearby measuring from the position stored when the answer arrives
\* instead of the position read when the scan began.
scanShow_CurrentPosition(sc, elements, okTypes, markers, list) ==
    LET myLat == meMarker.lat
        myLon == meMarker.lng
        places == FilterPlaces(elements, okTypes)
        sorted == SortByDist(WithDist(places, myLat, myLon))
    IN  IF elements = << >>
        THEN [markers |-> markers, list |-> list,
              status |-> "No places found in radius"]
        ELSE IF places = << >>
        THEN [markers |-> markers, list |-> list,
              status |-> "No selected-type places found"]
        ELSE [markers |-> markers \o
                  [i \in 1..Len(sorted) |-> PlaceMarker(sorted[i], sc.id)],
              list |-> list \o
                  [i \in 1..Len(sorted) |->
                      addPlaceToList(sorted[i], myLat, myLon, sc.id)],
              status |-> "Found"]

\* scanNearby calling clearPlaces() again when no element came back.
scanShow_ClearOnEmpty(sc, elements, okTypes, markers, list) ==
    LET myLat == sc.latlng.lat
        myLon == sc.latlng.lng
        places == FilterPlaces(elements, okTypes)
        sorted == SortByDist(WithDist(places, myLat, myLon))
    IN  IF elements = << >>
        THEN [markers |-> << >>, list |-> << >>,
              status |-> "No places found in radius"]
        ELSE IF places = << >>
        THEN [markers |-> markers, list |-> list,
              status |-> "No selected-type places found"]
        ELSE [markers |-> markers \o
                  [i \in 1..Len(sorted) |-> PlaceMarker(sorted[i], sc.id)],
              list |-> list \o
                  [i \in 1..Len(sorted) |->
                      addPlaceToList(sorted[i], myLat, myLon, sc.id)],
              status |-> "Found"]

\* scanNearby() after `await fetchNearby(...)`: from the elements returned,
\* the checkboxes ticked at that moment and what is displayed, the markers
\* and list displayed afterwards and the final status text.
scanShow(sc, elements, okTypes, markers, list) ==
    LET myLat == sc.latlng.lat
        myLon == sc.latlng.lng
        places == FilterPlaces(elements, okTypes)
        sorted == SortByDist(WithDist(places, myLat, myLon))
    IN  IF elements = << >>
        THEN [markers |-> markers, list |-> list,
              status |-> "No places found in radius"]
        ELSE IF places = << >>
        THEN [markers |-> markers, list |-> list,
              status |-> "No selected-type places found"]
        ELSE [markers |-> markers \o
                  [i \in 1..Len(sorted) |-> PlaceMarker(sorted[i], sc.id)],
              list |-> list \o
                  [i \in 1..Len(sorted) |->
                      addPlaceToList(sorted[i], myLat, myLon, sc.id)],
              status |-> "Found"]

\* The continuation of a suspended scanNearby call once fetchNearby has
\* returned `ret`; an exception out of fetchNearby would reject the call.
scanResume(sc, outcome, ret, okTypes) ==
    LET shown == scanShow(sc, ret.elements, okTypes, placeMarkers, resultsEl)
    IN  /\ lastOp' = IF outcome = "ok" THEN "scanOk" ELSE "scanFailed"
        /\ scans' = scans \ {sc}
        /\ IF ret.thrown
           THEN /\ faults' = faults \cup {sc.id}
                /\ status' = ret.status
                /\ UNCHANGED << placeMarkers, resultsEl >>
           ELSE /\ UNCHANGED faults
                /\ placeMarkers' = shown.markers
                /\ resultsEl' = shown.list
                /\ status' = shown.status
        /\ UNCHANGED << probe, loaded, geoSupported, watching, meMarker, routeLayer,
                        mapLayers, nScans, routes, nRoutes, clearSeen >>

\* The request of a suspended scanNearby call fails: fetch rejects
\* ("network") or answers with a non-success status ("http"); a body that
\* res.json() rejects takes the same catch block.  Nothing between the two awaits of fetchNearby touches
\* shared state, so the request resolves in one step.
ScanFail(sc, failure) ==
    /\ sc \in scans
    /\ scanResume(sc, failure, fetchNearby(failure, << >>, status), {})

\* The request succeeds with a JSON body whose elements are `body`.
ScanOk(sc, body, okTypes) ==
    /\ sc \in scans
    /\ scanResume(sc, "ok", fetchNearby("ok", body, status), okTypes)

\* --------------------------------------------------- routing / selection
\* routeTo removing the displayed route before it sends the request.
routeTo_RemoveAtRequest(destLat, destLon) ==
    /\ loaded
    /\ meMarker.present => nScans + nRoutes < MaxRequests
    /\ IF ~meMarker.present
       THEN /\ status' = "Current location unknown"
            /\ lastOp' = "routeNoLocation"
            /\ UNCHANGED << routes, nRoutes, routeLayer, mapLayers >>
       ELSE /\ status' = "Requesting route..."
            /\ nRoutes' = nRoutes + 1
            /\ routes' = routes \cup
                  {[id |-> nRoutes + 1,
                    url |-> << meMarker.lng, meMarker.lat, destLon, destLat >>]}
            /\ mapLayers' = mapLayers \ {routeLayer}
            /\ routeLayer' = NoLayer
            /\ lastOp' = "routeStart"
    /\ UNCHANGED << probe, loaded, geoSupported, watching, meMarker, placeMarkers,
                    resultsEl, scans, nScans, faults, clearSeen >>

\* routeTo writing each endpoint latitude first in the request path.
routeTo_LatFirst(destLat, destLon) ==
    /\ loaded
    /\ meMarker.present => nScans + nRoutes < MaxRequests
    /\ IF ~meMarker.present
       THEN /\ status' = "Current location unknown"
            /\ lastOp' = "routeNoLocation"
            /\ UNCHANGED << routes, nRoutes >>
       ELSE /\ status' = "Requesting route..."
            /\ nRoutes' = nRoutes + 1
            /\ routes' = routes \cup
                  {[id |-> nRoutes + 1,
                    url |-> << meMarker.lat, meMarker.lng, destLat, destLon >>]}
            /\ lastOp' = "routeStart"
    /\ UNCHANGED << probe, loaded, geoSupported, watching, meMarker, routeLayer,
                    mapLayers, placeMarkers, resultsEl, scans, nScans, faults,
                    clearSeen >>

\* routeTo(destLat, destLon) up to `await fetch(url)`.
routeTo(destLat, destLon) ==
    /\ loaded
    /\ meMarker.present => nScans + nRoutes < MaxRequests
    /\ IF ~meMarker.present
       THEN /\ status' = "Current location unknown"
            /\ lastOp' = "routeNoLocation"
            /\ UNCHANGED << routes, nRoutes >>
       ELSE /\ status' = "Requesting route..."
            /\ nRoutes' = nRoutes + 1
            /\ routes' = routes \cup
                  {[id |-> nRoutes + 1,
                    url |-> << meMarker.lng, meMarker.lat, destLon, destLat >>]}
            /\ lastOp' = "routeStart"
    /\ UNCHANGED << probe, loaded, geoSupported, watching, meMarker, routeLayer,
                    mapLayers, placeMarkers, resultsEl, scans, nScans, faults,
                    clearSeen >>

\* Click on item i of the results list.
ResultClick(i) ==
    /\ i \in 1..Len(resultsEl)
    /\ routeTo(resultsEl[i].lat, resultsEl[i].lon)

\* Click on marker i of the placeMarkers group.
MarkerClick(i) ==
    /\ i \in 1..Len(placeMarkers)
    /\ routeTo(placeMarkers[i].lat, placeMarkers[i].lon)

\* A catch block that also takes the displayed route off the map.
routeCatch_Clear(rt) ==
    /\ routes' = routes \ {rt}
    /\ clearSeen' = clearSeen \ {rt.id}
    /\ status' = "Routing failed"
    /\ mapLayers' = mapLayers \ {routeLayer}
    /\ routeLayer' = NoLayer
    /\ lastOp' = "routeFailed"
    /\ UNCHANGED << probe, loaded, geoSupported, watching, meMarker, placeMarkers,
                    resultsEl, scans, nScans, nRoutes, faults >>

\* The catch block of routeTo.
routeCatch(rt) ==
    /\ routes' = routes \ {rt}
    /\ clearSeen' = clearSeen \ {rt.id}
    /\ status' = "Routing failed"
    /\ lastOp' = "routeFailed"
    /\ UNCHANGED << probe, loaded, geoSupported, watching, meMarker, routeLayer,
                    mapLayers, placeMarkers, resultsEl, scans, nScans, nRoutes,
                    faults >>

\* The request of a suspended routeTo call fails: fetch rejects, answers
\* with a non-success status, or res.json() rejects.
RouteFail(rt, failure) ==
    /\ rt \in routes
    /\ routeCatch(rt)

\* routeTo and the clear handler forgetting map.removeLayer(routeLayer).
removeRouteLayer_Keep(layers, layer) == layers

\* map.removeLayer(routeLayer) when routeLayer is set.
removeRouteLayer(layers, layer) ==
    IF layer # NoLayer THEN layers \ {layer} ELSE layers

\* A variant in which an answer without routes is reported but the call
\* goes on waiting instead of returning.
RouteOk_EmptyStaysPending(rt, hasRoute) ==
    /\ rt \in routes
    /\ IF hasRoute
       THEN /\ routes' = routes \ {rt}
            /\ clearSeen' = clearSeen \ {rt.id}
            /\ routeLayer' = rt.id
            /\ mapLayers' = removeRouteLayer(mapLayers, routeLayer) \cup {rt.id}
            /\ status' = "Route"
       ELSE /\ UNCHANGED << routes, clearSeen, routeLayer >>
            /\ mapLayers' = removeRouteLayer(mapLayers, routeLayer)
            /\ status' = "No route found"
    /\ lastOp' = IF hasRoute THEN "routeShown" ELSE "routeEmpty"
    /\ UNCHANGED << probe, loaded, geoSupported, watching, meMarker, placeMarkers,
                    resultsEl, scans, nScans, nRoutes, faults >>

\* A variant of the success branch that keeps the route of the request
\* issued last instead of the route of the response handled last: the
\* answer to an older request is dropped once a newer route is shown.
RouteOk_DropStale(rt, hasRoute) ==
    /\ rt \in routes
    /\ routes' = routes \ {rt}
    /\ clearSeen' = clearSeen \ {rt.id}
    /\ IF hasRoute /\ rt.id > routeLayer
       THEN /\ routeLayer' = rt.id
            /\ mapLayers' = removeRouteLayer(mapLayers, routeLayer) \cup {rt.id}
            /\ status' = "Route"
       ELSE /\ UNCHANGED << routeLayer, mapLayers >>
            /\ status' = IF hasRoute THEN "Route" ELSE "No route found"
    /\ lastOp' = IF hasRoute THEN "routeShown" ELSE "routeEmpty"
    /\ UNCHANGED << probe, loaded, geoSupported, watching, meMarker, placeMarkers,
                    resultsEl, scans, nScans, nRoutes, faults >>

\* The request succeeds with a JSON body; hasRoute: j.routes is a
\* non-empty list.  The layer that routeTo call rt adds is layer rt.id.
RouteOk(rt, hasRoute) ==
    /\ rt \in routes
    /\ routes' = routes \ {rt}
    /\ clearSeen' = clearSeen \ {rt.id}
    /\ IF hasRoute
       THEN /\ routeLayer' = rt.id
            /\ mapLayers' = removeRouteLayer(mapLayers, routeLayer) \cup {rt.id}
            /\ status' = "Route"
       ELSE /\ UNCHANGED routeLayer
            /\ mapLayers' = removeRouteLayer(mapLayers, routeLayer)
            /\ status' = "No route found"
    /\ lastOp' = IF hasRoute THEN "routeShown" ELSE "routeEmpty"
    /\ UNCHANGED << probe, loaded, geoSupported, watching, meMarker, placeMarkers,
                    resultsEl, scans, nScans, nRoutes, faults >>

\* The click handler of the clearRoute button.
ClearRouteClick ==
    /\ loaded
    /\ IF routeLayer # NoLayer
       THEN /\ mapLayers' = removeRouteLayer(mapLayers, routeLayer)
            /\ routeLayer' = NoLayer
            /\ status' = "Route cleared"
       ELSE UNCHANGED << mapLayers, routeLayer, status >>
    /\ clearSeen' = clearSeen \cup {rt.id : rt \in routes}
    /\ lastOp' = "other"
    /\ UNCHANGED << probe, loaded, geoSupported, watching, meMarker, placeMarkers,
                    resultsEl, scans, nScans, routes, nRoutes, faults >>

\* ----------------------------------------------------------- behaviours
Next ==
    \/ StartWatch
    \/ \E pos \in Positions : PositionUpdate(pos)
    \/ PositionError
    \/ LocateClick
    \/ \E text \in RadiusTexts : scanNearby(text)
    \/ \E sc \in scans, f \in FetchFailures : ScanFail(sc, f)
    \/ \E sc \in scans, body \in Bodies, ok \in Ticked : ScanOk(sc, body, ok)
    \/ \E i \in 1..Len(resultsEl) : ResultClick(i)
    \/ \E i \in 1..Len(placeMarkers) : MarkerClick(i)
    \/ \E rt \in routes, f \in FetchFailures : RouteFail(rt, f)
    \/ \E rt \in routes, hasRoute \in BOOLEAN : RouteOk(rt, hasRoute)
    \/ ClearRouteClick

Spec == Init /\ [][Next]_vars

\* The routing endpoint answers request id or the request fails: the
\* promise awaited by routeTo call id settles and the call resumes.
ResolveRoute(id) ==
    \E rt \in routes :
        /\ rt.id = id
        /\ \/ \E f \in FetchFailures : RouteFail(rt, f)
           \/ \E hasRoute \in BOOLEAN : RouteOk(rt, hasRoute)

\* The steps of the program in behaviours that issue at most MaxFairScans
\* discovery requests; selections, clears and location events are free.
NextFair ==
    \/ StartWatch
    \/ \E pos \in Positions : PositionUpdate(pos)
    \/ PositionError
    \/ LocateClick
    \/ \E text \in RadiusTexts : scanNearby(text) /\ nScans' <= MaxFairScans
    \/ \E sc \in scans, f \in FetchFailures : ScanFail(sc, f)
    \/ \E sc \in scans, body \in Bodies, ok \in Ticked : ScanOk(sc, body, ok)
    \/ \E i \in 1..Len(resultsEl) : ResultClick(i)
    \/ \E i \in 1..Len(placeMarkers) : MarkerClick(i)
    \/ \E rt \in routes, f \in FetchFailures : RouteFail(rt, f)
    \/ \E rt \in routes, hasRoute \in BOOLEAN : RouteOk(rt, hasRoute)
    \/ ClearRouteClick

\* The program when every routing request is eventually answered or fails.
SpecFair ==
    /\ Init
    /\ [][NextFair]_vars
    /\ \A id \in 1..MaxRequests : WF_vars(ResolveRoute(id))

\* ------------------------------------------------ functions in isolation
\* The pure functions of the program, each applied once to arguments drawn
\* from a bounded set; the program itself does not move.
programVars == << loaded, geoSupported, watching, meMarker, routeLayer,
                 mapLayers, placeMarkers, resultsEl, status, scans, nScans,
                 routes, nRoutes, faults, clearSeen, lastOp >>

\* Elements an answer of the discovery endpoint may hold.
ProbeElements == {Hosp, Pol, Rest, Bare, Shel, Fire}

\* Element lists of at most MaxElems elements, each element at most once.
ElementLists ==
    UNION { { e \in [1..n -> ProbeElements] :
                \A i, j \in 1..n : i # j => e[i] # e[j] } : n \in 0..MaxElems }

\* One scan: the elements returned, the position read when the scan began
\* and the categories ticked.
ScanProbes ==
    { [fn |-> "scan", done |-> FALSE, elements |-> e, latlng |-> pos,
       okTypes |-> ok] :
      e \in ElementLists, pos \in Positions, ok \in SUBSET Categories }

\* Values of the amenity and emergency tags (Undefined: the key is absent).
AmenityValues == {Undefined, "hospital", "police", "fire_station", "shelter",
                  "restaurant"}
EmergencyValues == {Undefined, "shelter", "yes"}

\* The tags object with the given values.
TagsOf(amenity, emergency) ==
    (IF amenity = Undefined THEN NoTags ELSE [k \in {"amenity"} |-> amenity])
    @@ (IF emergency = Undefined THEN NoTags
        ELSE [k \in {"emergency"} |-> emergency])

\* One call of classify: an element without a tags object, or with one.
ClassifyProbes ==
    { c \in { [fn |-> "classify", done |-> FALSE, hasTags |-> h,
               amenity |-> am, emergency |-> em] :
             h \in BOOLEAN, am \in AmenityValues, em \in EmergencyValues } :
        c.hasTags \/ (c.amenity = Undefined /\ c.emergency = Undefined) }

\* The calls haversine(a, b), haversine(b, a) and haversine(a, a).
GridPoints == { [lat |-> la, lon |-> lo] : la \in 0..MaxCoord, lo \in 0..MaxCoord }
HaversineProbes ==
    { [fn |-> "haversine", done |-> FALSE, a |-> a, b |-> b] :
      a \in GridPoints, b \in GridPoints }

\* const BATCH_LIMIT = 500
BATCH_LIMIT == 500

\* generateReports(count) at the top of its loop: the documents are
\* numbered 1..count in the order of batch.set; a batch holds the documents
\* first..last (none when last < first), commits lists the batches
\* committed so far.  The counts are those around the multiples of
\* BATCH_LIMIT.
ReportProbes ==
    { [fn |-> "generateReports", done |-> FALSE, count |-> k * BATCH_LIMIT + d,
       i |-> 0, counter |-> 0, batch |-> [first |-> 1, last |-> 0],
       commits |-> << >>] :
      k \in 0..MaxBatches, d \in {0, 1, BATCH_LIMIT - 1} }

InitProbe ==
    /\ \/ probe \in ScanProbes
       \/ probe \in ClassifyProbes
       \/ probe \in HaversineProbes
       \/ probe \in ReportProbes
    /\ loaded = FALSE
    /\ geoSupported = TRUE
    /\ watching = FALSE
    /\ meMarker = NoMarker
    /\ routeLayer = NoLayer
    /\ mapLayers = {}
    /\ placeMarkers = << >>
    /\ resultsEl = << >>
    /\ status = ""
    /\ scans = {}
    /\ nScans = 0
    /\ routes = {}
    /\ nRoutes = 0
    /\ faults = {}
    /\ clearSeen = {}
    /\ lastOp = "other"

\* scanNearby after its await, on an empty display.
ProbeScan ==
    /\ probe.fn = "scan" /\ ~probe.done
    /\ LET sc == [id |-> 1, latlng |-> probe.latlng, radius |-> 2000,
                  before |-> << >>]
           shown == scanShow(sc, probe.elements, probe.okTypes, << >>, << >>)
       IN  probe' = [fn |-> "scan", done |-> TRUE,
                     elements |-> probe.elements, latlng |-> probe.latlng,
                     okTypes |-> probe.okTypes,
                     markers |-> shown.markers, list |-> shown.list,
                     status |-> shown.status,
                     calls |-> IF shown.status = "Found"
                               THEN haversineCalls(sc, probe.elements,
                                                   probe.okTypes)
                               ELSE << >>]
    /\ UNCHANGED programVars

ProbeClassify ==
    /\ probe.fn = "classify" /\ ~probe.done
    /\ LET tags == IF probe.hasTags
                   THEN TagsOf(probe.amenity, probe.emergency) ELSE NoTags
           elem == [id |-> 1, lat |-> 0, lon |-> 0,
                    hasTags |-> probe.hasTags, tags |-> tags]
       IN  probe' = [fn |-> "classify", done |-> TRUE,
                     hasTags |-> probe.hasTags, amenity |-> probe.amenity,
                     emergency |-> probe.emergency, type |-> classify(elem)]
    /\ UNCHANGED programVars

ProbeHaversine ==
    /\ probe.fn = "haversine" /\ ~probe.done
    /\ probe' = [fn |-> "haversine", done |-> TRUE, a |-> probe.a, b |-> probe.b,
                 ab |-> haversine(probe.a.lat, probe.a.lon,
                                  probe.b.lat, probe.b.lon),
                 ba |-> haversine(probe.b.lat, probe.b.lon,
                                  probe.a.lat, probe.a.lon),
                 aa |-> haversine(probe.a.lat, probe.a.lon,
                                  probe.a.lat, probe.a.lon)]
    /\ UNCHANGED programVars

\* One iteration of the loop of generateReports: batch.set, counter++ and,
\* every BATCH_LIMIT documents, `await batch.commit()` and a new batch.
ReportsLoop ==
    /\ probe.fn = "generateReports" /\ ~probe.done
    /\ probe.i < probe.count
    /\ LET counter == probe.counter + 1
           batch == [first |-> probe.batch.first, last |-> counter]
           full == counter % BATCH_LIMIT = 0
       IN  probe' = [probe EXCEPT
                        !.i = probe.i + 1,
                        !.counter = counter,
                        !.commits = IF full THEN Append(@, batch) ELSE @,
                        !.batch = IF full
                                  THEN [first |-> counter + 1, last |-> counter]
                                  ELSE batch]
    /\ UNCHANGED programVars

\* generateReports committing whatever batch is open after the loop.
ReportsFinish_AlwaysCommit ==
    /\ probe.fn = "generateReports" /\ ~probe.done
    /\ probe.i >= probe.count
    /\ probe' = [probe EXCEPT !.done = TRUE,
                              !.commits = Append(@, probe.batch)]
    /\ UNCHANGED programVars

\* generateReports after its loop: `if (counter % BATCH_LIMIT !== 0) await
\* batch.commit()`.
ReportsFinish ==
    /\ probe.fn = "generateReports" /\ ~probe.done
    /\ probe.i >= probe.count
    /\ probe' = [probe EXCEPT
                    !.done = TRUE,
                    !.commits = IF probe.counter % BATCH_LIMIT # 0
                                THEN Append(@, probe.batch) ELSE @]
    /\ UNCHANGED programVars

NextProbe ==
    \/ ProbeScan
    \/ ProbeClassify
    \/ ProbeHaversine
    \/ ReportsLoop
    \/ ReportsFinish

SpecProbe == InitProbe /\ [][NextProbe]_vars

\* ------------------------------------------------------------ properties
\* Steps are told apart by lastOp', which every handler sets.
RouteDisplayed == mapLayers # {}
CyclesDisplayed ==
    {resultsEl[i].cycle : i \in DOMAIN resultsEl}
        \cup {placeMarkers[i].cycle : i \in DOMAIN placeMarkers}

\* C1: when a clear click arrives while a route request is in flight and the
\* request then succeeds with a route, no route is displayed once the
\* response has been handled.
C1_ClearedRequestEndsIdle ==
    [][\A rt \in routes :
          (rt.id \in clearSeen /\ rt \notin routes' /\ lastOp' = "routeShown")
              => ~RouteDisplayed']_vars

\* C2: in every reachable state at most one route layer is on the map.
C2_AtMostOneRoute == Cardinality(mapLayers) <= 1

\* Two requests were issued and both have resolved, the first one last and
\* with a route: its layer is the only one on the map.
C2_Witness ==
    /\ nRoutes = 2 /\ routes = {}
    /\ lastOp = "routeShown" /\ routeLayer = 1 /\ mapLayers = {1}

\* C3: what is displayed (list and markers) comes from at most one
\* discovery cycle.
C3_OneCycleDisplayed == Cardinality(CyclesDisplayed) <= 1

\* C4 as stated: at the step that issues a route request no route is
\* displayed any more: the prior route is removed when the request goes out.
C4_PriorRouteRemovedAtRequest ==
    [][lastOp' = "routeStart" => ~RouteDisplayed']_vars

\* C4 amended: issuing a route request leaves the route slot and the map as
\* they were; a displayed route leaves the map only when a response has been
\* received successfully (it is then gone whatever the answer holds) or when
\* the clear button is clicked.
C4_PriorRouteKeptUntilAnswer ==
    [][/\ lastOp' = "routeStart" =>
             (mapLayers' = mapLayers /\ routeLayer' = routeLayer)
       /\ lastOp' \in {"routeShown", "routeEmpty"} =>
             mapLayers \cap mapLayers' = {}
       /\ mapLayers \ mapLayers' # {} =>
             (lastOp' \in {"routeShown", "routeEmpty"} \/ status' = "Route cleared")]_vars

\* A request has just been issued and the prior route is still displayed.
C4_Witness == lastOp = "routeStart" /\ RouteDisplayed /\ routes # {}

\* C5: a successful answer with an empty route list is reported as
\* 'No route found' and leaves the route slot as it was.
C5_EmptyAnswerKeepsRoute ==
    [][lastOp' = "routeEmpty" =>
          /\ status' = "No route found"
          /\ mapLayers' = mapLayers
          /\ routeLayer' = routeLayer]_vars

\* C6 as stated: a failed route request is reported and leaves no route
\* displayed, whatever was displayed before.
C6_FailureEndsIdle ==
    [][lastOp' = "routeFailed" =>
          /\ status' = "Routing failed"
          /\ ~RouteDisplayed']_vars

\* C6 amended: a failed route request is reported and leaves the route slot
\* and the map as they were before the failure was handled.
C6_FailureKeepsSlot ==
    [][lastOp' = "routeFailed" =>
          /\ status' = "Routing failed"
          /\ mapLayers' = mapLayers
          /\ routeLayer' = routeLayer
          /\ \E rt \in routes : routes' = routes \ {rt}]_vars

\* A request has just failed while a route is displayed.
C6_Witness == lastOp = "routeFailed" /\ RouteDisplayed /\ status = "Routing failed"

\* C7 as stated: after a failed scan the list is the one that was displayed
\* before the scan was started.
C7_FailedScanKeepsPriorList ==
    [][\A sc \in scans :
          (sc \notin scans' /\ lastOp' = "scanFailed")
              => resultsEl' = sc.before]_vars

\* C7 amended: handling a discovery failure changes neither the list nor the
\* markers displayed at that moment; the list displayed before the scan was
\* emptied when the scan was started.
C7_FailureHandlingKeepsDisplay ==
    [][/\ lastOp' = "scanFailed" =>
             (resultsEl' = resultsEl /\ placeMarkers' = placeMarkers)
       /\ lastOp' \in {"scanStart", "scanNoLocation"} =>
             (resultsEl' = << >> /\ placeMarkers' = << >>)]_vars

\* A failed response has just been handled while the list of another
\* discovery cycle is displayed.
C7_Witness == lastOp = "scanFailed" /\ resultsEl # << >> /\ placeMarkers # << >>

\* C8: a failed discovery request never ends scanNearby in an unhandled
\* rejection: the call gets an empty sequence (it reports 'No places found
\* in radius'), completes, and no fault is recorded.
C8_DiscoveryFailureHandled ==
    [][lastOp' = "scanFailed" =>
          /\ faults' = {}
          /\ status' = "No places found in radius"
          /\ \E sc \in scans : scans' = scans \ {sc}]_vars

\* A scan ended on a failed request, normally.
C8_Witness ==
    lastOp = "scanFailed" /\ faults = {} /\ status = "No places found in radius"

\* C9: right after a scan ended on a failed request the status shows the
\* discovery failure message.
C9_FailureMessageShown ==
    lastOp = "scanFailed" => status \in {OverpassFailed(f) : f \in FetchFailures}

\* C10: while no position has been received no step issues a request or
\* touches the route slot, and a scan or a selection only reports a status.
C10_NoRequestWithoutPosition ==
    [][~meMarker.present =>
          /\ nScans' = 0 /\ nRoutes' = 0 /\ scans' = {} /\ routes' = {}
          /\ routeLayer' = routeLayer /\ mapLayers' = mapLayers
          /\ lastOp' \notin {"scanStart", "routeStart"}
          /\ lastOp' = "scanNoLocation" => status' = "No location yet"
          /\ lastOp' = "routeNoLocation" => status' = "Current location unknown"]_vars

\* The scan button was clicked before any position arrived.
C10_Witness ==
    /\ ~meMarker.present /\ lastOp = "scanNoLocation"
    /\ status = "No location yet" /\ nScans = 0 /\ nRoutes = 0


\* C11: route requests are never cancelled and several may be in flight at
\* once; whenever a successful routing response is handled, the route it
\* carries becomes the stored route and the only route on the map, so every
\* route shown by an earlier response has been removed and, once all the
\* requests have resolved, the route displayed is the one handled last.
C11_LastHandledRouteWins ==
    [][lastOp' = "routeShown" =>
         \E rt \in routes : /\ rt \notin routes'
                            /\ routeLayer' = rt.id
                            /\ mapLayers' = {rt.id}]_vars

\* Two requests were issued, the second was answered first, and the answer
\* to the first, handled last, is the one route on the map.
C11_Witness ==
    /\ nRoutes = 2 /\ routes = {} /\ nScans = 1 /\ scans = {}
    /\ lastOp = "routeShown" /\ status = "Route"
    /\ routeLayer = 1 /\ mapLayers = {1}
    /\ clearSeen = {}


\* C12: whatever the elements, the position and the ticked categories, the
\* list and the markers one scan displays are in non-decreasing order of
\* distance from the position, every displayed place has a ticked category,
\* and no place classified unknown is displayed.
C12_RankedAndFiltered ==
    (probe.fn = "scan" /\ probe.done) =>
        /\ \A i \in 1..Len(probe.list) :
              /\ probe.list[i].type \in probe.okTypes
              /\ probe.list[i].type # "unknown"
              /\ probe.list[i].dist =
                    haversine(probe.latlng.lat, probe.latlng.lng,
                              probe.list[i].lat, probe.list[i].lon)
              /\ probe.markers[i].id = probe.list[i].id
        /\ Len(probe.markers) = Len(probe.list)
        /\ \A i, j \in 1..Len(probe.list) :
              i < j => probe.list[i].dist <= probe.list[j].dist

\* A scan whose elements arrive farthest first, with an element of no
\* category between them and every category ticked, displays the two
\* known places nearest first.
C12_Witness ==
    /\ probe.fn = "scan" /\ probe.done
    /\ probe.elements = << Hosp, Rest, Pol >>
    /\ probe.okTypes = Categories
    /\ Len(probe.list) = 2
    /\ probe.list[1].id = Pol.id /\ probe.list[2].id = Hosp.id
    /\ probe.list[1].dist < probe.list[2].dist


\* C13: for every combination of the amenity and emergency tags, absent
\* tags and an absent tags object included, classify returns one of
\* hospital, police, fire, shelter and unknown, and which one follows the
\* precedence amenity=hospital, amenity=police, amenity=fire_station, then
\* emergency=shelter or amenity=shelter, else unknown.
C13_ClassifyPrecedence ==
    (probe.fn = "classify" /\ probe.done) =>
        /\ probe.type \in Categories \cup {"unknown"}
        /\ probe.type = "hospital" <=> probe.amenity = "hospital"
        /\ probe.type = "police" <=> probe.amenity = "police"
        /\ probe.type = "fire" <=> probe.amenity = "fire_station"
        /\ probe.type = "shelter" <=>
              /\ probe.amenity \notin {"hospital", "police", "fire_station"}
              /\ probe.emergency = "shelter" \/ probe.amenity = "shelter"

\* A hospital that is also tagged as an emergency shelter is a hospital.
C13_Witness ==
    /\ probe.fn = "classify" /\ probe.done
    /\ probe.amenity = "hospital" /\ probe.emergency = "shelter"
    /\ probe.type = "hospital"


\* C14: on a platform without geolocation, startWatch sets the status
\* 'Geolocation not supported' at once and registers no watcher, and after
\* every later step there is still no watcher and no stored position.
C14_NoGeolocationNoPosition ==
    [][~geoSupported =>
         /\ ~watching'
         /\ ~meMarker'.present
         /\ ~loaded => status' = "Geolocation not supported"]_vars

\* Without geolocation, a scan requested after startup finds no position.
C14_Witness ==
    /\ loaded /\ ~geoSupported /\ ~watching
    /\ meMarker = NoMarker
    /\ lastOp = "scanNoLocation" /\ status = "No location yet"

\* C15: a location error changes only the status: the stored position is
\* left as it is and the watch goes on, so that in every state reached by
\* an error a position update can still be delivered and, when it is, the
\* position it carries is the one stored.
C15_ErrorKeepsPositionAndWatch ==
    /\ [][status' = "Geo error" => meMarker' = meMarker /\ watching']_vars
    /\ [](status = "Geo error" =>
            \A pos \in Positions :
                ENABLED (/\ PositionUpdate(pos)
                         /\ meMarker' = [present |-> TRUE, lat |-> pos.lat,
                                         lng |-> pos.lng]))

\* An error reported after a position was stored: the position is kept.
C15_Witness ==
    /\ status = "Geo error" /\ watching
    /\ meMarker = [present |-> TRUE, lat |-> 2, lng |-> 1]


\* C16: for all points a and b of the grid, haversine(a, a) is 0 and
\* haversine(a, b) equals haversine(b, a).
C16_ZeroAndSymmetric ==
    (probe.fn = "haversine" /\ probe.done) =>
        /\ probe.aa = 0
        /\ probe.ab = probe.ba

\* Two points that differ in latitude and in longitude are the same
\* positive distance apart in both directions.
C16_Witness ==
    /\ probe.fn = "haversine" /\ probe.done
    /\ probe.a = [lat |-> 0, lon |-> 0] /\ probe.b = [lat |-> 2, lon |-> 2]
    /\ probe.ab > 0 /\ probe.ab = probe.ba /\ probe.aa = 0


\* C17: the radius of every discovery request is an integer greater than
\* 0, whatever text the radius input holds.
C17_RadiusPositive ==
    \A sc \in scans : sc.radius > 0


\* C18: while one scan displays its places, haversine is called at most
\* once for each place.
C18_DistanceComputedOnce ==
    (probe.fn = "scan" /\ probe.done) =>
        \A i, j \in 1..Len(probe.calls) :
            i # j => probe.calls[i] # probe.calls[j]

\* C19: two places that one scan displays at the same distance from the
\* position are displayed in the order in which their elements came back
\* from the discovery endpoint.
C19_TiesKeepEndpointOrder ==
    (probe.fn = "scan" /\ probe.done) =>
        LET At(id) == CHOOSE k \in 1..Len(probe.elements) :
                          probe.elements[k].id = id
        IN  \A i, j \in 1..Len(probe.list) :
                (i < j /\ probe.list[i].dist = probe.list[j].dist) =>
                    At(probe.list[i].id) < At(probe.list[j].id)

\* The fire station and the police station are equally far; the fire
\* station came back first and is displayed first, the farther hospital
\* that came back between them is displayed last.
C19_Witness ==
    /\ probe.fn = "scan" /\ probe.done
    /\ probe.elements = << Fire, Hosp, Pol >>
    /\ Len(probe.list) = 3
    /\ probe.list[1].id = Fire.id /\ probe.list[2].id = Pol.id
    /\ probe.list[3].id = Hosp.id
    /\ probe.list[1].dist = probe.list[2].dist
    /\ probe.list[2].dist < probe.list[3].dist


\* C20: every routing request carries the path originLon,originLat;
\* destLon,destLat, where the origin is the stored position and the
\* destination is a displayed place (the list item or marker clicked).
C20_RequestIsLonFirst ==
    [][lastOp' = "routeStart" =>
         \E rt \in routes' \ routes :
             /\ routes' = routes \cup {rt}
             /\ \E k \in 1..Len(resultsEl) :
                   rt.url = << meMarker.lng, meMarker.lat,
                               resultsEl[k].lon, resultsEl[k].lat >>]_vars

\* From latitude 2, longitude 1, a route to the hospital at latitude 0,
\* longitude 2 is requested as 1,2;2,0.
C20_Witness ==
    /\ lastOp = "routeStart"
    /\ meMarker = [present |-> TRUE, lat |-> 2, lng |-> 1]
    /\ \E rt \in routes : rt.url = << 1, 2, Hosp.lon, Hosp.lat >>
    /\ \E k \in 1..Len(resultsEl) : resultsEl[k].id = Hosp.id


\* C21: in every reachable state routeLayer is set exactly when a route
\* layer is on the map.
C21_SlotAgreesWithMap ==
    (routeLayer # NoLayer) <=> RouteDisplayed


\* C22: once a position is stored, every later step leaves a position
\* stored, and no scan or destination selection made from then on ends for
\* lack of a position.
C22_PositionNeverLost ==
    [][meMarker.present =>
         /\ meMarker'.present
         /\ lastOp' \notin {"scanNoLocation", "routeNoLocation"}
         /\ status' \notin {"No location yet", "Current location unknown"}]_vars

\* A location error reported after a position was stored and after a scan
\* and a route request, both resolved, were made from it: the position is
\* still stored.
C22_Witness ==
    /\ status = "Geo error" /\ meMarker.present
    /\ nScans = 1 /\ scans = {}
    /\ nRoutes = 1 /\ routes = {}
    /\ routeLayer = NoLayer /\ ~RouteDisplayed


\* C23: a scan reads the stored position once, when it starts: that
\* position is the centre of its discovery query, and every distance the
\* scan displays when the answer arrives, on markers and in the list, is
\* the distance from that same position, whatever position is stored by
\* then.
C23_OneSnapshotPerScan ==
    [][/\ lastOp' = "scanStart" =>
            \E sc \in scans' \ scans :
                sc.latlng = [lat |-> meMarker.lat, lng |-> meMarker.lng]
       /\ lastOp' = "scanOk" =>
            \E sc \in scans \ scans' :
                LET FromSnapshot(item) ==
                        item.cycle = sc.id =>
                            item.dist = HaversineOnGrid[
                                << sc.latlng.lat, sc.latlng.lng,
                                   item.lat, item.lon >>]
                IN  /\ \A k \in 1..Len(resultsEl') :
                          FromSnapshot(resultsEl'[k])
                    /\ \A k \in 1..Len(placeMarkers') :
                          FromSnapshot(placeMarkers'[k])]_vars

\* The scan began at latitude 0, longitude 0; the position moved to
\* latitude 2, longitude 1 before the answer came; the police station is
\* listed at its distance from the first position.
C23_Witness ==
    /\ lastOp = "scanOk" /\ nScans = 1 /\ scans = {}
    /\ meMarker = [present |-> TRUE, lat |-> 2, lng |-> 1]
    /\ Len(resultsEl) >= 1
    /\ resultsEl[1].id = Pol.id
    /\ resultsEl[1].dist = HaversineOnGrid[<< 0, 0, Pol.lat, Pol.lon >>]
    /\ resultsEl[1].dist # HaversineOnGrid[<< 2, 1, Pol.lat, Pol.lon >>]


\* C24: when the routing endpoint eventually answers or fails, every route
\* request issued is eventually resolved, whatever else happens in between,
\* and the step that resolves it ends in one of three outcomes: the route
\* is displayed, 'No route found' or 'Routing failed'.
C24_EveryRequestResolved ==
    /\ [][routes \ routes' # {} =>
            \/ lastOp' = "routeShown" /\ status' = "Route"
            \/ lastOp' = "routeEmpty" /\ status' = "No route found"
            \/ lastOp' = "routeFailed" /\ status' = "Routing failed"]_vars
    /\ \A id \in 1..MaxRequests :
          (\E rt \in routes : rt.id = id) ~> ~(\E rt \in routes : rt.id = id)

\* Two requests were issued and both have been resolved, the one resolved
\* last in one of the three outcomes.
C24_Witness ==
    /\ nRoutes = 2 /\ routes = {}
    /\ lastOp \in {"routeShown", "routeEmpty", "routeFailed"}
    /\ status \in {"Route", "No route found", "Routing failed"}
    /\ faults = {}


\* C25: while generateReports(count) runs, every batch committed holds at
\* least one and at most BATCH_LIMIT writes, every batch committed inside
\* the loop holds exactly BATCH_LIMIT, the open batch never reaches
\* BATCH_LIMIT writes, and the batches hold the documents in order without
\* gap or repetition; when it has finished, the batches committed hold the
\* documents 1..count, each once.
C25_BatchesOfAtMostLimit ==
    probe.fn = "generateReports" =>
        LET Size(b) == b.last - b.first + 1
            n == Len(probe.commits)
        IN  /\ \A k \in 1..n :
                  /\ Size(probe.commits[k]) >= 1
                  /\ Size(probe.commits[k]) <= BATCH_LIMIT
                  /\ (k < n \/ ~probe.done) =>
                        Size(probe.commits[k]) = BATCH_LIMIT
                  /\ probe.commits[k].first =
                        IF k = 1 THEN 1 ELSE probe.commits[k - 1].last + 1
            /\ Size(probe.batch) < BATCH_LIMIT
            /\ probe.done =>
                  IF probe.count = 0 THEN n = 0
                  ELSE n >= 1 /\ probe.commits[n].last = probe.count

\* 1001 documents are committed as two batches of 500 and a last one of 1.
C25_Witness ==
    /\ probe.fn = "generateReports" /\ probe.done
    /\ probe.count = 2 * BATCH_LIMIT + 1
    /\ Len(probe.commits) = 3
    /\ probe.commits[3] = [first |-> probe.count, last |-> probe.count]

=============================================================================
